---- MODULE Spec2Model ----
(***************************************************************************)
(* Expecto Patronum paper-trading core: the Position Ledger               *)
(* (src/core/portfolio.py), the Risk Gate (src/core/risk_manager.py) and   *)
(* the Command Dispatcher (src/core/trading_engine.py), with the Price     *)
(* Feed and the Persistence Store as nondeterministic collaborators.       *)
(*                                                                         *)
(* Units.  The code computes in floats; the model uses exact fixed point:  *)
(*   amount  : hundredths of a coin   (100 = 1.0 coin)                     *)
(*   price   : whole dollars          (0 stands for None / unavailable)    *)
(*   money   : thousandths of a dollar, so that amount*price*0.1 is exact. *)
(***************************************************************************)
EXTENDS Integers, Sequences, FiniteSets, TLC

VARIABLES
    running,        \* TradingEngine.running
    cash,           \* Portfolio.cash
    positions,      \* Portfolio.positions : symbol -> list of positions
    stats,          \* Portfolio.stats
    next_id,        \* the next fresh trade id (uuid4 is modelled as a counter)
    session_stats,  \* TradingEngine.session_stats
    max_leverage,   \* RiskManager.max_leverage (overridable at runtime)
    op,             \* the last call a caller made
    result,         \* what that call returned
    calls,          \* the collaborator calls made while serving it, in order
    dispatched,     \* how many times cast_spell has been called
    threads,        \* where each thread of the host is inside a call
    daily_pnl,      \* RiskManager.daily_pnl
    max_daily_loss  \* RiskManager.max_daily_loss, in percent

vars == <<running, cash, positions, stats, next_id, session_stats,
          max_leverage, op, result, calls, dispatched, threads,
          daily_pnl, max_daily_loss>>

----------------------------------------------------------------------------
(* Bounds of the model *)

\* at most this many positions are ever created (trade ids 1..MaxTrades)
MaxTrades == 2
\* at most this many commands are dispatched through cast_spell
MaxCommands == 2
\* at most this many commands are dispatched by the concurrent threads
MaxConcCommands == 3
\* the running daily P&L stays within this many steps of PnlStep from zero
MaxDailySteps == 3

----------------------------------------------------------------------------
(* Fixed point *)

\* thousandths of a dollar in d dollars
Dollars(d) == d * 1000

\* amount * price, in money units (hundredths of a coin times dollars)
Value(amount, price) == amount * price * 10

\* x * 0.1 for a money value x
Tenth(x) == x \div 10

----------------------------------------------------------------------------
(* Inputs callers and collaborators supply *)

\* "bitcoin" has its own risk limits; "btc" is priced by the feed (as an alias
\* of bitcoin) but falls back to the default risk limits; "" is the symbol the
\* GUI passes with LUMOS and NOX, which the Price Feed does not support.
Symbols == {"bitcoin", "btc", ""}

\* amounts a caller of the Ledger passes: 0.2 and 1.0 coins
Amounts == {20, 100}

\* amounts a caller of cast_spell passes with a symbol.  On bitcoin: also 2.0
\* coins (above its limit of 1.0), zero and a negative amount; on btc: 0.2 and
\* 200.0 coins (above the default limit of 100.0); on "": 0.2 coins
SpellAmounts(symbol) ==
    CASE symbol = "bitcoin" -> Amounts \cup {200, 0, -1}
      [] symbol = "btc"     -> {20, 20000}
      [] OTHER              -> {20}

\* the P&L figures a caller of the Risk Gate passes are multiples of 500.00
PnlStep == Dollars(500)
PnlFigures == {k * PnlStep : k \in -2..2}

\* prices a caller of the Ledger passes
Prices == {45000, 50000}

\* the <<amount, price>> a caller of the Ledger opens a position with: 0.2
\* coins at either price (at 50000, a long takes all the starting cash) and
\* 1.0 coin at 50000 (a long the starting cash cannot pay)
Orders == {<<20, 45000>>, <<20, 50000>>, <<100, 50000>>}

\* prices the feed may hold for a symbol; none for a symbol it does not support
FeedPrices(symbol) ==
    CASE symbol = "bitcoin" -> Prices
      [] symbol = "btc"     -> Prices
      [] OTHER              -> {}

\* what the feed's lookup of a symbol may yield: a price, nothing (0), or an
\* exception (-1)
FeedOutcomes(symbol) == FeedPrices(symbol) \cup {0, -1}

----------------------------------------------------------------------------
(* Portfolio *)

initial_cash == Dollars(10000)

ZeroStats == [total_pnl |-> 0, total_pnl_percent |-> 0, winning_trades |-> 0,
              losing_trades |-> 0, total_trades |-> 0]

\* the Ledger as one value: what the Portfolio's methods read and write
Ledger == [cash |-> cash, positions |-> positions, stats |-> stats,
           next_id |-> next_id]

\* a collaborator call: which function, on which trade id (0: none), and
\* whether it returned a value (TRUE) or raised, or returned None (FALSE)
Call(fn, id, ok) == [fn |-> fn, id |-> id, ok |-> ok]

\* the uniform result: kind names the failure; trade_id is 0 and
\* closed_trades is empty when the result does not carry them
Res(success, kind, reason, trade_id, closed_trades) ==
    [success |-> success, kind |-> kind, reason |-> reason,
     trade_id |-> trade_id, closed_trades |-> closed_trades]

Failure(kind) == Res(FALSE, kind, "", 0, <<>>)

\* a variant of the except clauses that raises the exception again, as the
\* Store's own methods do; "Raised" stands for an exception reaching the caller
Caught_reraised(kind) == Failure("Raised")

\* the except clauses of the Ledger and of the spell handlers:
\* `except Exception as e: return {'success': False, 'message': ...}`
Caught(kind) == Failure(kind)

NewPosition(trade_id, type, amount, price) ==
    [trade_id |-> trade_id, type |-> type, amount |-> amount,
     entry_price |-> price, status |-> "OPEN",
     keys |-> {}, exit_price |-> 0, pnl |-> 0]

\* a variant of the affordability test made against the starting balance
\* instead of the current cash
Insufficient_initial_cash(required, available) == required > initial_cash

\* the affordability test of open_long_position and open_short_position
Insufficient(required, available) == required > available

\* cash is debited by the amount the affordability test was made on
Debit(available, required) == available - required

\* the margin of a short: 10% of the notional
MarginRequired(amount, price) == Tenth(Value(amount, price))

\* a variant of the except clauses that restores the Ledger
AfterRaise_rollback(before, mutated) == before

\* the Ledger an except clause leaves behind: it only logs and returns, so
\* what was mutated before the Store raised stays mutated
AfterRaise(before, mutated) == mutated

\* open_long_position(symbol, amount, price); save_position raises when ~dbOk
\* and the except clause turns that into a failure result
open_long_position(L, symbol, amount, price, dbOk) ==
    LET required_cash == Value(amount, price) IN
    IF Insufficient(required_cash, L.cash)
    THEN [L |-> L, res |-> Failure("InsufficientFunds"), calls |-> <<>>]
    ELSE LET trade_id == L.next_id
             position == NewPosition(trade_id, "LONG", amount, price)
             L1 == [L EXCEPT !.positions[symbol] = Append(@, position),
                             !.cash = Debit(@, required_cash),
                             !.next_id = @ + 1]
         IN  IF dbOk
             THEN [L |-> L1,
                   res |-> Res(TRUE, "OK", "", trade_id, <<>>),
                   calls |-> <<Call("save_position", trade_id, TRUE)>>]
             ELSE [L |-> AfterRaise(L, L1),
                   res |-> Caught("InternalError"),
                   calls |-> <<Call("save_position", trade_id, FALSE)>>]

\* open_short_position(symbol, amount, price)
open_short_position(L, symbol, amount, price, dbOk) ==
    LET margin_required == MarginRequired(amount, price) IN
    IF Insufficient(margin_required, L.cash)
    THEN [L |-> L, res |-> Failure("InsufficientMargin"), calls |-> <<>>]
    ELSE LET trade_id == L.next_id
             position == NewPosition(trade_id, "SHORT", amount, price)
             L1 == [L EXCEPT !.positions[symbol] = Append(@, position),
                             !.cash = Debit(@, margin_required),
                             !.next_id = @ + 1]
         IN  IF dbOk
             THEN [L |-> L1,
                   res |-> Res(TRUE, "OK", "", trade_id, <<>>),
                   calls |-> <<Call("save_position", trade_id, TRUE)>>]
             ELSE [L |-> AfterRaise(L, L1),
                   res |-> Caught("InternalError"),
                   calls |-> <<Call("save_position", trade_id, FALSE)>>]

\* the indices, in list order, of the positions close_positions selects
PositionsToClose(ps, position_type) ==
    SelectSeq([i \in 1..Len(ps) |-> i],
              LAMBDA i : ps[i].status = "OPEN"
                         /\ (position_type = "ALL" \/ ps[i].type = position_type))

\* realized P&L of closing `position` at current_price
Pnl(position, current_price) ==
    IF position.type = "LONG"
    THEN Value(position.amount, current_price - position.entry_price)
    ELSE Value(position.amount, position.entry_price - current_price)

\* a variant of the cash return that settles a short's P&L into cash
CashReturn_settled(position, current_price) ==
    IF position.type = "LONG"
    THEN Value(position.amount, current_price)
    ELSE Tenth(Value(position.amount, position.entry_price))
         + Value(position.amount, position.entry_price - current_price)

\* what closing `position` at current_price returns to cash
CashReturn(position, current_price) ==
    IF position.type = "LONG"
    THEN Value(position.amount, current_price)
    ELSE Tenth(Value(position.amount, position.entry_price))

\* a variant that marks the position closed before its P&L is stored
MarkClosed_without_pnl(position, current_price, pnl) ==
    [position EXCEPT !.status = "CLOSED",
                     !.keys = {"exit_price", "exit_time"},
                     !.exit_price = current_price]

\* the position once marked closed
MarkClosed(position, current_price, pnl) ==
    [position EXCEPT !.status = "CLOSED",
                     !.keys = {"exit_price", "exit_time", "pnl"},
                     !.exit_price = current_price,
                     !.pnl = pnl]

\* the per-close part of the stats update
CountTrade(st, pnl) ==
    [st EXCEPT !.total_trades = @ + 1,
               !.winning_trades = IF pnl > 0 THEN @ + 1 ELSE @,
               !.losing_trades = IF pnl > 0 THEN @ ELSE @ + 1]

\* total_pnl / initial_cash * 100, in hundredths of a percent
PnlPercent(total_pnl) == total_pnl \div (initial_cash \div 10000)

\* the loop of close_positions from its k-th selected position on.  S carries
\* the Ledger, closed_trades, total_pnl, the calls made, and whether
\* close_position raised; the Store raises on the failAt-th position (0: never)
RECURSIVE CloseLoop(_, _, _, _, _, _)
CloseLoop(S, symbol, todo, current_price, failAt, k) ==
    IF k > Len(todo) THEN S
    ELSE LET i == todo[k]
             position == S.L.positions[symbol][i]
             pnl == Pnl(position, current_price)
             cash_return == CashReturn(position, current_price)
             L1 == [S.L EXCEPT !.cash = @ + cash_return,
                               !.positions[symbol][i] =
                                   MarkClosed(position, current_price, pnl)]
         IN  IF failAt = k
             THEN [S EXCEPT !.L = AfterRaise(S.L, L1),
                            !.calls = Append(@, Call("close_position", position.trade_id, FALSE)),
                            !.raised = TRUE]
             ELSE CloseLoop(
                    [L |-> [L1 EXCEPT !.stats = CountTrade(@, pnl)],
                     closed_trades |-> Append(S.closed_trades, position.trade_id),
                     total_pnl |-> S.total_pnl + pnl,
                     calls |-> Append(S.calls, Call("close_position", position.trade_id, TRUE)),
                     raised |-> FALSE],
                    symbol, todo, current_price, failAt, k + 1)

\* the end of close_positions: the except clause when the Store raised in the
\* loop, the update of the total P&L otherwise
CloseEnd(S) ==
    IF S.raised
    THEN [L |-> S.L, res |-> Caught("InternalError"), calls |-> S.calls]
    ELSE [L |-> [S.L EXCEPT !.stats.total_pnl = @ + S.total_pnl,
                            !.stats.total_pnl_percent =
                                PnlPercent(S.L.stats.total_pnl + S.total_pnl)],
          res |-> Res(TRUE, "OK", "", 0, S.closed_trades),
          calls |-> S.calls]

\* close_positions(symbol, position_type, current_price)
close_positions(L, symbol, position_type, current_price, failAt) ==
    LET todo == PositionsToClose(L.positions[symbol], position_type) IN
    IF L.positions[symbol] = <<>> \/ todo = <<>>
    THEN [L |-> L, res |-> Failure("NoMatchingPositions"), calls |-> <<>>]
    ELSE CloseEnd(CloseLoop([L |-> L, closed_trades |-> <<>>, total_pnl |-> 0,
                             calls |-> <<>>, raised |-> FALSE],
                            symbol, todo, current_price, failAt, 1))

\* a variant of reset_portfolio that leaves the stats as they are
reset_portfolio_keeps_stats(L) ==
    [L EXCEPT !.positions = [s \in Symbols |-> <<>>],
              !.cash = initial_cash]

\* reset_portfolio(): the Store's reset_portfolio swallows its own errors, so
\* nothing is raised whether or not the Store fails
reset_portfolio(L) ==
    [L EXCEPT !.positions = [s \in Symbols |-> <<>>],
              !.cash = initial_cash,
              !.stats = ZeroStats]

\* the rows of the Store's positions table with status OPEN and a trade id up
\* to `id`, newest first (ORDER BY entry_time DESC; trade ids are handed out
\* in the order of entry).  A Store that recorded every open and every close
\* of the session holds one such row for each OPEN position of the Ledger.
RECURSIVE OpenRows(_, _)
OpenRows(L, id) ==
    IF id = 0 THEN <<>>
    ELSE (IF \E s \in Symbols : \E i \in DOMAIN L.positions[s] :
                L.positions[s][i].trade_id = id /\ L.positions[s][i].status = "OPEN"
          THEN LET s == CHOOSE s \in Symbols : \E i \in DOMAIN L.positions[s] :
                           L.positions[s][i].trade_id = id
                   i == CHOOSE i \in DOMAIN L.positions[s] :
                           L.positions[s][i].trade_id = id
               IN  <<[symbol |-> s, position |-> L.positions[s][i]]>>
          ELSE <<>>)
         \o OpenRows(L, id - 1)

\* db_manager.get_open_positions(): the rows, or [] when the query fails
get_open_positions(L, ok) == IF ok THEN OpenRows(L, L.next_id - 1) ELSE <<>>

\* _load_positions: the rows from the k-th on are appended, in order, to the
\* lists of their symbols, each as an OPEN position
RECURSIVE load_positions(_, _, _)
load_positions(ps, positions_data, k) ==
    IF k > Len(positions_data) THEN ps
    ELSE load_positions(
            [ps EXCEPT ![positions_data[k].symbol] =
                Append(@, NewPosition(positions_data[k].position.trade_id,
                                      positions_data[k].position.type,
                                      positions_data[k].position.amount,
                                      positions_data[k].position.entry_price))],
            positions_data, k + 1)

\* Portfolio.__init__ over a Store that returns positions_data: the starting
\* cash, zero stats and the positions loaded; trade ids stay fresh
Portfolio_init(L, positions_data) ==
    [cash |-> initial_cash,
     positions |-> load_positions([s \in Symbols |-> <<>>], positions_data, 1),
     stats |-> ZeroStats,
     next_id |-> L.next_id]

\* a variant of the valuation that counts the CLOSED positions as well
InValuation_closed_too(position) == TRUE

\* the positions get_portfolio_value counts: `if position['status'] == 'OPEN'`
InValuation(position) == position.status = "OPEN"

\* the inner loop of get_portfolio_value over the first n positions of a
\* symbol: the market value of a LONG, the unrealized P&L of a SHORT
RECURSIVE SymbolValue(_, _, _)
SymbolValue(ps, current_price, n) ==
    IF n = 0 THEN 0
    ELSE SymbolValue(ps, current_price, n - 1)
         + (IF InValuation(ps[n])
            THEN IF ps[n].type = "LONG"
                 THEN Value(ps[n].amount, current_price)
                 ELSE Value(ps[n].amount, ps[n].entry_price - current_price)
            ELSE 0)

\* what a symbol adds to the total: nothing `if symbol not in current_prices`
PricedValue(L, current_prices, symbol) ==
    IF symbol \in DOMAIN current_prices
    THEN SymbolValue(L.positions[symbol], current_prices[symbol], Len(L.positions[symbol]))
    ELSE 0

\* get_portfolio_value(current_prices), without the per-symbol breakdown
get_portfolio_value(L, current_prices) ==
    [total_value |-> L.cash + PricedValue(L, current_prices, "bitcoin")
                           + PricedValue(L, current_prices, "btc")
                           + PricedValue(L, current_prices, ""),
     cash |-> L.cash,
     total_pnl |-> L.stats.total_pnl,
     total_pnl_percent |-> L.stats.total_pnl_percent]

----------------------------------------------------------------------------
(* RiskManager *)

DefaultMaxLeverage == 3

default_limits == [max_amount |-> 10000, max_value |-> Dollars(10000)]

\* symbol_limits.get(symbol.lower(), default_limits); the model's symbols
\* are lower case already
SymbolLimits(symbol) ==
    CASE symbol = "bitcoin"  -> [max_amount |-> 100, max_value |-> Dollars(50000)]
      [] symbol = "ethereum" -> [max_amount |-> 1000, max_value |-> Dollars(30000)]
      [] symbol = "cardano"  -> [max_amount |-> 100000, max_value |-> Dollars(20000)]
      [] symbol = "solana"   -> [max_amount |-> 10000, max_value |-> Dollars(25000)]
      [] symbol = "polkadot" -> [max_amount |-> 50000, max_value |-> Dollars(15000)]
      [] OTHER               -> default_limits

Decision(allowed, reason) == [allowed |-> allowed, reason |-> reason]

\* a variant of the amount test made against the notional limit
ExceedsAmount_max_value(amount, limits) == amount > limits.max_value

\* the amount test of check_position_limit
ExceedsAmount(amount, limits) == amount > limits.max_amount

\* check_position_limit(symbol, position_type, amount, price) under the
\* configured max_leverage.  A zero position value makes the leverage
\* quotient divide by zero; the except clause denies with an error reason.
check_position_limit(symbol, position_type, amount, price, maxLeverage) ==
    LET limits == SymbolLimits(symbol)
        position_value == Value(amount, price)
    IN  IF ExceedsAmount(amount, limits)
        THEN Decision(FALSE, "amount")
        ELSE IF position_value > limits.max_value
        THEN Decision(FALSE, "value")
        ELSE IF position_type = "SHORT"
        THEN IF Tenth(position_value) = 0
             THEN Decision(FALSE, "error")
             ELSE IF position_value \div Tenth(position_value) > maxLeverage
                  THEN Decision(FALSE, "leverage")
                  ELSE Decision(TRUE, "")
        ELSE Decision(TRUE, "")

\* max_daily_loss = 0.1, in percent
DefaultMaxDailyLoss == 10

\* a variant of the loss test that also denies at the threshold
BelowThreshold_or_at(new_daily_pnl, threshold) == new_daily_pnl <= threshold

\* the loss test of check_daily_loss_limit
BelowThreshold(new_daily_pnl, threshold) == new_daily_pnl < threshold

\* check_daily_loss_limit(new_pnl) with the running daily P&L dailyPnl and
\* the limit maxDailyLoss (percent).  Both sides of
\* `new_daily_pnl < -(self.daily_pnl * self.max_daily_loss)` are taken times
\* 100, so that the comparison is exact.
check_daily_loss_limit(dailyPnl, new_pnl, maxDailyLoss) ==
    LET new_daily_pnl == dailyPnl + new_pnl IN
    IF BelowThreshold(100 * new_daily_pnl, 0 - (dailyPnl * maxDailyLoss))
    THEN Decision(FALSE, "daily_loss")
    ELSE Decision(TRUE, "")

\* update_daily_pnl(pnl)
update_daily_pnl(dailyPnl, pnl) == dailyPnl + pnl

----------------------------------------------------------------------------
(* MarketDataProvider *)

\* get_price lower-cases the symbol, returns None for an unsupported symbol or
\* one it holds no price for, and swallows its own errors.  `held` is what the
\* lookup yields for the symbol (0: nothing, negative: an exception); None is
\* modelled as 0.
get_price(symbol, held) == IF FeedPrices(symbol) = {} \/ held < 0 THEN 0 ELSE held

----------------------------------------------------------------------------
(* TradingEngine *)

Spells == {"EXPECTO_LONG", "EXPECTO_SHORT", "FINITE_INCANTATEM", "ALOHOMORA",
           "COLLOPORTUS", "LUMOS", "NOX"}

\* what a caller may pass as spell_name: the spell book and a name not in it
SpellNames == Spells \cup {"AVADA_KEDAVRA"}

\* the position_type keyword argument; "" stands for its absence
KwPositionTypes == {"", "ALL", "LONG", "SHORT"}

\* start(): TRUE when it was not running
start(isRunning) == TRUE

\* stop()
stop(isRunning) == FALSE

\* what a spell handler hands back: the engine flag, the Ledger, the result
\* and the calls made
Handled(isRunning, L, res, cs) == [running |-> isRunning, L |-> L, res |-> res, calls |-> cs]

\* log_trade is called once per trade id of `ids`, in order, and raises on
\* the logFailAt-th call (0: never): the calls made up to and including it
LogCalls(ids, logFailAt) ==
    [j \in 1..(IF logFailAt \in 1..Len(ids) THEN logFailAt ELSE Len(ids)) |->
        Call("log_trade", ids[j], j # logFailAt)]

\* the rest of _cast_expecto_long / _cast_expecto_short once the Ledger has
\* answered trade_result: log the trade on success, pass the failure on otherwise
OpenOutcome(isRunning, trade_result, cs, logFailAt) ==
    IF trade_result.res.success
    THEN Handled(isRunning, trade_result.L,
                 IF logFailAt = 1 THEN Caught("Backfired")
                 ELSE Res(TRUE, "OK", "", trade_result.res.trade_id, <<>>),
                 cs \o trade_result.calls
                    \o LogCalls(<<trade_result.res.trade_id>>, logFailAt))
    ELSE Handled(isRunning, trade_result.L, Failure(trade_result.res.kind),
                 cs \o trade_result.calls)

\* a variant of the denial that does not say why
Blocked_unexplained(isRunning, L, risk_check, cs) ==
    Handled(isRunning, L, Res(FALSE, "RiskLimitExceeded", "", 0, <<>>), cs)

\* what a spell answers when the Risk Gate denies
Blocked(isRunning, L, risk_check, cs) ==
    Handled(isRunning, L, Res(FALSE, "RiskLimitExceeded", risk_check.reason, 0, <<>>), cs)

\* _cast_expecto_long
cast_expecto_long(isRunning, L, symbol, amount, price, maxLeverage, dbFailAt, logFailAt) ==
    IF ~check_position_limit(symbol, "LONG", amount, price, maxLeverage).allowed
    THEN Blocked(isRunning, L,
                 check_position_limit(symbol, "LONG", amount, price, maxLeverage),
                 <<Call("check_position_limit", 0, TRUE)>>)
    ELSE OpenOutcome(isRunning,
                     open_long_position(L, symbol, amount, price, dbFailAt # 1),
                     <<Call("check_position_limit", 0, TRUE),
                       Call("open_long_position", 0, TRUE)>>,
                     logFailAt)

\* _cast_expecto_short
cast_expecto_short(isRunning, L, symbol, amount, price, maxLeverage, dbFailAt, logFailAt) ==
    IF ~check_position_limit(symbol, "SHORT", amount, price, maxLeverage).allowed
    THEN Blocked(isRunning, L,
                 check_position_limit(symbol, "SHORT", amount, price, maxLeverage),
                 <<Call("check_position_limit", 0, TRUE)>>)
    ELSE OpenOutcome(isRunning,
                     open_short_position(L, symbol, amount, price, dbFailAt # 1),
                     <<Call("check_position_limit", 0, TRUE),
                       Call("open_short_position", 0, TRUE)>>,
                     logFailAt)

\* the rest of _cast_finite_incantatem once the Ledger has answered close_result
CloseOutcome(isRunning, close_result, cs, logFailAt) ==
    IF close_result.res.success
    THEN Handled(isRunning, close_result.L,
                 IF logFailAt \in 1..Len(close_result.res.closed_trades)
                 THEN Caught("Backfired")
                 ELSE Res(TRUE, "OK", "", 0, close_result.res.closed_trades),
                 cs \o close_result.calls
                    \o LogCalls(close_result.res.closed_trades, logFailAt))
    ELSE Handled(isRunning, close_result.L, Failure(close_result.res.kind),
                 cs \o close_result.calls)

\* _cast_finite_incantatem: position_type comes from the keyword arguments
\* and defaults to ALL
cast_finite_incantatem(isRunning, L, symbol, price, kw, dbFailAt, logFailAt) ==
    CloseOutcome(isRunning,
                 close_positions(L, symbol, IF kw = "" THEN "ALL" ELSE kw, price, dbFailAt),
                 <<Call("close_positions", 0, TRUE)>>,
                 logFailAt)

\* _cast_alohomora: LONG unless the keyword argument says otherwise
cast_alohomora(isRunning, L, symbol, amount, price, kw, maxLeverage, dbFailAt, logFailAt) ==
    IF kw = "" \/ kw = "LONG"
    THEN cast_expecto_long(isRunning, L, symbol, amount, price, maxLeverage, dbFailAt, logFailAt)
    ELSE cast_expecto_short(isRunning, L, symbol, amount, price, maxLeverage, dbFailAt, logFailAt)

\* _cast_lumos
cast_lumos(isRunning, L) ==
    Handled(start(isRunning), L, Res(TRUE, "OK", "", 0, <<>>), <<>>)

\* _cast_nox
cast_nox(isRunning, L) ==
    Handled(stop(isRunning), L, Res(TRUE, "OK", "", 0, <<>>), <<>>)

\* self.spells[spell_name](symbol, amount, current_price, **kwargs)
CastHandler(spell_name, isRunning, L, symbol, amount, price, kw, maxLeverage, dbFailAt, logFailAt) ==
    CASE spell_name = "EXPECTO_LONG" ->
            cast_expecto_long(isRunning, L, symbol, amount, price, maxLeverage, dbFailAt, logFailAt)
      [] spell_name = "EXPECTO_SHORT" ->
            cast_expecto_short(isRunning, L, symbol, amount, price, maxLeverage, dbFailAt, logFailAt)
      [] spell_name = "FINITE_INCANTATEM" ->
            cast_finite_incantatem(isRunning, L, symbol, price, kw, dbFailAt, logFailAt)
      [] spell_name = "ALOHOMORA" ->
            cast_alohomora(isRunning, L, symbol, amount, price, kw, maxLeverage, dbFailAt, logFailAt)
      [] spell_name = "COLLOPORTUS" ->
            cast_finite_incantatem(isRunning, L, symbol, price, kw, dbFailAt, logFailAt)
      [] spell_name = "LUMOS" -> cast_lumos(isRunning, L)
      [] spell_name = "NOX" -> cast_nox(isRunning, L)

\* the session counters after a spell handler returned `res`
CountSpell(ss, res) ==
    [ss EXCEPT !.total_trades = @ + 1,
               !.successful_trades = IF res.success THEN @ + 1 ELSE @,
               !.failed_trades = IF res.success THEN @ ELSE @ + 1]

\* the end of cast_spell once the handler has answered h: the session
\* counters are updated and the handler's result is returned
Counted(h, c0, ss) == [h |-> [h EXCEPT !.calls = c0 \o @], ss |-> CountSpell(ss, h.res)]

\* a variant of cast_spell without its first test
EngineInactive_unchecked(isRunning) == FALSE

\* the first test of cast_spell: the engine must be running
EngineInactive(isRunning) == ~isRunning

\* cast_spell(spell_name, symbol, amount, **kwargs): what it hands back, with
\* the session counters.  `held` is the price the feed holds for the symbol.
cast_spell(isRunning, L, ss, spell_name, symbol, amount, kw, held, maxLeverage, dbFailAt, logFailAt) ==
    IF EngineInactive(isRunning)
    THEN [h |-> Handled(isRunning, L, Failure("EngineInactive"), <<>>), ss |-> ss]
    ELSE IF spell_name \notin Spells
    THEN [h |-> Handled(isRunning, L, Failure("UnknownCommand"), <<>>), ss |-> ss]
    ELSE LET current_price == get_price(symbol, held)
             c0 == <<Call("get_price", 0, TRUE)>>
         IN  IF current_price = 0
             THEN [h |-> Handled(isRunning, L, Failure("PriceUnavailable"),
                                 <<Call("get_price", 0, FALSE)>>),
                   ss |-> ss]
             ELSE Counted(CastHandler(spell_name, isRunning, L, symbol, amount,
                                      current_price, kw, maxLeverage, dbFailAt, logFailAt),
                          c0, ss)

----------------------------------------------------------------------------
(* The state machine *)

\* the last call: spell is "" for a call that is not a dispatch; symbol,
\* amount and position_type are recorded for the calls whose repetition or
\* arguments a property refers to (close_positions, cast_spell)
Op(name, spell, symbol, amount, position_type) ==
    [name |-> name, spell |-> spell, symbol |-> symbol, amount |-> amount,
     position_type |-> position_type]

\* where the Persistence Store may raise during one call: on its n-th
\* save_position / close_position (0: never)
FaultPoints == 0..MaxTrades

\* the threads of a multi-threaded host that call into the engine
Threads == {1, 2}

\* a thread that is in no call.  Inside a call a thread holds the call's
\* arguments and the locals of close_positions
IdleThread ==
    [pc |-> "idle", amount |-> 0, price |-> 0, todo |-> <<>>, k |-> 0, total_pnl |-> 0]

Init ==
    /\ running = FALSE
    /\ cash = initial_cash
    /\ positions = [s \in Symbols |-> <<>>]
    /\ stats = ZeroStats
    /\ next_id = 1
    /\ session_stats = [total_trades |-> 0, successful_trades |-> 0, failed_trades |-> 0]
    /\ max_leverage = DefaultMaxLeverage
    /\ op = Op("init", "", "", 0, "")
    /\ result = Res(TRUE, "OK", "", 0, <<>>)
    /\ calls = <<>>
    /\ dispatched = 0
    /\ threads = [t \in Threads |-> IdleThread]
    /\ daily_pnl = 0
    /\ max_daily_loss = DefaultMaxDailyLoss

\* the Ledger's variables take the values of L
SetLedger(L) ==
    /\ cash' = L.cash
    /\ positions' = L.positions
    /\ stats' = L.stats
    /\ next_id' = L.next_id

\* portfolio.open_long_position(symbol, amount, price), called directly
OpenLong(symbol, amount, price, dbOk) ==
    /\ next_id <= MaxTrades
    /\ \E r \in {open_long_position(Ledger, symbol, amount, price, dbOk)} :
       /\ SetLedger(r.L)
       /\ result' = r.res
       /\ calls' = r.calls
    /\ op' = Op("open_long", "", "", 0, "")
    /\ UNCHANGED <<running, session_stats, max_leverage, daily_pnl,
                   max_daily_loss, dispatched, threads>>

\* portfolio.open_short_position(symbol, amount, price), called directly
OpenShort(symbol, amount, price, dbOk) ==
    /\ next_id <= MaxTrades
    /\ \E r \in {open_short_position(Ledger, symbol, amount, price, dbOk)} :
       /\ SetLedger(r.L)
       /\ result' = r.res
       /\ calls' = r.calls
    /\ op' = Op("open_short", "", "", 0, "")
    /\ UNCHANGED <<running, session_stats, max_leverage, daily_pnl,
                   max_daily_loss, dispatched, threads>>

\* portfolio.close_positions(symbol, position_type, current_price), called directly
ClosePositions(symbol, position_type, price, failAt) ==
    /\ \E r \in {close_positions(Ledger, symbol, position_type, price, failAt)} :
       /\ SetLedger(r.L)
       /\ result' = r.res
       /\ calls' = r.calls
    /\ op' = Op("close_positions", "", symbol, 0, position_type)
    /\ UNCHANGED <<running, session_stats, max_leverage, daily_pnl,
                   max_daily_loss, dispatched, threads>>

\* portfolio.reset_portfolio()
Reset ==
    /\ SetLedger(reset_portfolio(Ledger))
    /\ result' = Res(TRUE, "OK", "", 0, <<>>)
    /\ calls' = <<Call("reset_portfolio", 0, TRUE)>>
    /\ op' = Op("reset", "", "", 0, "")
    /\ UNCHANGED <<running, session_stats, max_leverage, daily_pnl,
                   max_daily_loss, dispatched, threads>>

\* portfolio.get_portfolio_value(current_prices)
GetPortfolioValue(current_prices) ==
    /\ result' = get_portfolio_value(Ledger, current_prices)
    /\ op' = Op("get_portfolio_value", "", "", 0, "")
    /\ calls' = <<>>
    /\ UNCHANGED <<running, cash, positions, stats, next_id, session_stats,
                   max_leverage, daily_pnl,
                   max_daily_loss, dispatched, threads>>

\* the application is restarted: Portfolio(db_manager) is constructed again
\* over the Store of the session before
Restart(loadOk) ==
    /\ SetLedger(Portfolio_init(Ledger, get_open_positions(Ledger, loadOk)))
    /\ op' = Op("restart", "", "", 0, "")
    /\ result' = Res(TRUE, "OK", "", 0, <<>>)
    /\ calls' = <<Call("get_open_positions", 0, loadOk)>>
    /\ UNCHANGED <<running, session_stats, max_leverage, daily_pnl,
                   max_daily_loss, dispatched, threads>>

\* trading_engine.start(), called directly
Start ==
    /\ running' = start(running)
    /\ op' = Op("start", "", "", 0, "")
    /\ result' = Res(TRUE, "OK", "", 0, <<>>)
    /\ calls' = <<>>
    /\ UNCHANGED <<cash, positions, stats, next_id, session_stats,
                   max_leverage, daily_pnl,
                   max_daily_loss, dispatched, threads>>

\* trading_engine.stop(), called directly
Stop ==
    /\ running' = stop(running)
    /\ op' = Op("stop", "", "", 0, "")
    /\ result' = Res(TRUE, "OK", "", 0, <<>>)
    /\ calls' = <<>>
    /\ UNCHANGED <<cash, positions, stats, next_id, session_stats,
                   max_leverage, daily_pnl,
                   max_daily_loss, dispatched, threads>>

\* risk_manager.set_risk_limits(max_leverage=v)
SetRiskLimits(v) ==
    /\ max_leverage' = v
    /\ op' = Op("set_risk_limits", "", "", 0, "")
    /\ result' = Res(TRUE, "OK", "", 0, <<>>)
    /\ calls' = <<>>
    /\ UNCHANGED <<running, cash, positions, stats, next_id,
                   session_stats, dispatched, threads, daily_pnl, max_daily_loss>>

\* risk_manager.set_risk_limits(max_daily_loss=v)
SetDailyLossLimit(v) ==
    /\ max_daily_loss' = v
    /\ op' = Op("set_risk_limits", "", "", 0, "")
    /\ result' = Res(TRUE, "OK", "", 0, <<>>)
    /\ calls' = <<>>
    /\ UNCHANGED <<running, cash, positions, stats, next_id, session_stats,
                   max_leverage, dispatched, threads, daily_pnl>>

\* risk_manager.update_daily_pnl(pnl)
UpdateDailyPnl(pnl) ==
    /\ update_daily_pnl(daily_pnl, pnl) \in
          (0 - MaxDailySteps * PnlStep)..(MaxDailySteps * PnlStep)
    /\ daily_pnl' = update_daily_pnl(daily_pnl, pnl)
    /\ op' = Op("update_daily_pnl", "", "", pnl, "")
    /\ result' = Res(TRUE, "OK", "", 0, <<>>)
    /\ calls' = <<>>
    /\ UNCHANGED <<running, cash, positions, stats, next_id, session_stats,
                   max_leverage, dispatched, threads, max_daily_loss>>

\* risk_manager.reset_daily_tracking()
ResetDailyTracking ==
    /\ daily_pnl' = 0
    /\ op' = Op("reset_daily_tracking", "", "", 0, "")
    /\ result' = Res(TRUE, "OK", "", 0, <<>>)
    /\ calls' = <<>>
    /\ UNCHANGED <<running, cash, positions, stats, next_id, session_stats,
                   max_leverage, dispatched, threads, max_daily_loss>>

\* risk_manager.check_daily_loss_limit(new_pnl); the P&L asked about is
\* recorded as the amount of the call
CheckDailyLossLimit(new_pnl) ==
    /\ result' = check_daily_loss_limit(daily_pnl, new_pnl, max_daily_loss)
    /\ op' = Op("check_daily_loss_limit", "", "", new_pnl, "")
    /\ calls' = <<>>
    /\ UNCHANGED <<running, cash, positions, stats, next_id, session_stats,
                   max_leverage, dispatched, threads, daily_pnl, max_daily_loss>>

\* trading_engine.cast_spell(spell_name, symbol, amount, position_type=kw)
\* while the feed holds `held` for the symbol
CastSpell(spell_name, symbol, amount, kw, held, dbFailAt, logFailAt) ==
    /\ dispatched < MaxCommands
    /\ next_id <= MaxTrades
    /\ \E r \in {cast_spell(running, Ledger, session_stats, spell_name, symbol, amount,
                              kw, held, max_leverage, dbFailAt, logFailAt)} :
       /\ SetLedger(r.h.L)
       /\ running' = r.h.running
       /\ session_stats' = r.ss
       /\ result' = r.h.res
       /\ calls' = r.h.calls
    /\ op' = Op("cast_spell", spell_name, symbol, amount, kw)
    /\ dispatched' = dispatched + 1
    /\ UNCHANGED <<max_leverage, daily_pnl, max_daily_loss, threads>>

\* the symbols a caller of the Ledger passes
LedgerSymbols == {"bitcoin", "btc"}

\* the Ledger driven by a caller of its methods
LedgerNext ==
    \/ \E symbol \in LedgerSymbols, o \in Orders, dbOk \in BOOLEAN :
          OpenLong(symbol, o[1], o[2], dbOk)
    \/ \E symbol \in LedgerSymbols, o \in Orders, dbOk \in BOOLEAN :
          OpenShort(symbol, o[1], o[2], dbOk)
    \/ \E symbol \in LedgerSymbols, position_type \in {"ALL", "LONG", "SHORT"},
          price \in Prices :
          \E failAt \in 0..Len(PositionsToClose(positions[symbol], position_type)) :
             ClosePositions(symbol, position_type, price, failAt)
    \/ Reset

LedgerSpec == Init /\ [][LedgerNext]_vars

\* the price mappings a caller of get_portfolio_value passes: a price for
\* each symbol of some set of symbols
PriceMaps == UNION {[D -> Prices] : D \in SUBSET LedgerSymbols}

\* the Ledger driven by a caller that also asks for its value, while the
\* Store does not fail
ValuationNext ==
    \/ \E symbol \in LedgerSymbols, o \in Orders : OpenLong(symbol, o[1], o[2], TRUE)
    \/ \E symbol \in LedgerSymbols, o \in Orders : OpenShort(symbol, o[1], o[2], TRUE)
    \/ \E symbol \in LedgerSymbols, price \in Prices :
          ClosePositions(symbol, "ALL", price, 0)
    \/ \E current_prices \in PriceMaps : GetPortfolioValue(current_prices)

ValuationSpec == Init /\ [][ValuationNext]_vars

\* sessions of the Ledger, one after the other, over a Store that records
\* every open and every close
RestartNext ==
    \/ \E symbol \in LedgerSymbols, o \in Orders : OpenLong(symbol, o[1], o[2], TRUE)
    \/ \E symbol \in LedgerSymbols, o \in Orders : OpenShort(symbol, o[1], o[2], TRUE)
    \/ \E symbol \in LedgerSymbols, price \in Prices :
          ClosePositions(symbol, "ALL", price, 0)
    \/ \E loadOk \in BOOLEAN : Restart(loadOk)

RestartSpec == Init /\ [][RestartNext]_vars

\* the Risk Gate's daily tracking driven by its caller
RiskNext ==
    \/ \E v \in {DefaultMaxDailyLoss, 50} : SetDailyLossLimit(v)
    \/ \E pnl \in PnlFigures : UpdateDailyPnl(pnl)
    \/ ResetDailyTracking
    \/ \E new_pnl \in PnlFigures : CheckDailyLossLimit(new_pnl)

RiskSpec == Init /\ [][RiskNext]_vars

\* where the Store raises during one spell, as <<dbFailAt, logFailAt>>: once
\* save_position or close_position has raised, log_trade is never reached
OpenFaults == {<<0, 0>>, <<1, 0>>, <<0, 1>>}
CloseFaults == {<<d, 0>> : d \in FaultPoints} \cup {<<0, l>> : l \in 1..MaxTrades}

\* the application: every Ledger operation goes through cast_spell.  The
\* alias spells ALOHOMORA and COLLOPORTUS are cast on bitcoin only.
Next ==
    \/ Start
    \/ Stop
    \/ \E v \in {DefaultMaxLeverage, 10} : SetRiskLimits(v)
    \/ \E spell_name \in {"EXPECTO_LONG", "EXPECTO_SHORT"}, symbol \in Symbols,
          f \in OpenFaults :
          \E amount \in SpellAmounts(symbol), held \in FeedOutcomes(symbol) :
             CastSpell(spell_name, symbol, amount, "", held, f[1], f[2])
    \/ \E kw \in KwPositionTypes, held \in FeedPrices("bitcoin") :
          CastSpell("ALOHOMORA", "bitcoin", 20, kw, held, 0, 0)
    \/ \E symbol \in Symbols, kw \in {"", "LONG", "SHORT"}, f \in CloseFaults :
          \E held \in FeedOutcomes(symbol) :
             CastSpell("FINITE_INCANTATEM", symbol, 0, kw, held, f[1], f[2])
    \/ \E held \in FeedPrices("bitcoin") :
          CastSpell("COLLOPORTUS", "bitcoin", 0, "", held, 0, 0)
    \/ \E spell_name \in {"LUMOS", "NOX", "AVADA_KEDAVRA"}, symbol \in Symbols :
          \E held \in FeedOutcomes(symbol) :
             CastSpell(spell_name, symbol, 0, "", held, 0, 0)

Spec == Init /\ [][Next]_vars

----------------------------------------------------------------------------
(* Two threads calling cast_spell at the same time.  cast_spell and the
   Portfolio take no lock (only start and stop do), so a thread may be
   preempted between any two statements; the steps below are the stretches
   between the points where the shared state is read or written *)

\* the symbol the concurrent commands are about
ConcSymbol == "bitcoin"

\* thread t is at pc
At(t, pc) == threads[t].pc = pc

\* thread t returns from cast_spell with result res: the session counters
\* are updated and the thread is idle again
Return(t, res) ==
    /\ session_stats' = CountSpell(session_stats, res)
    /\ threads' = [threads EXCEPT ![t] = IdleThread]

\* thread t calls cast_spell: the running test, the price lookup and, for
\* EXPECTO_LONG, the Risk Gate (trading_engine.py 78-103, 122-132).  None of
\* the three early returns touches the session counters.
ThreadCastSpell(t, spell_name, amount, held) ==
    /\ At(t, "idle")
    /\ dispatched < MaxConcCommands
    /\ next_id + Cardinality({u \in Threads : threads[u].pc \in {"open_check", "open_mutate"}})
          <= MaxTrades
    /\ dispatched' = dispatched + 1
    /\ UNCHANGED <<running, cash, positions, stats, next_id, max_leverage, daily_pnl,
                   max_daily_loss, op, result, calls>>
    /\ IF EngineInactive(running) \/ get_price(ConcSymbol, held) = 0
       THEN UNCHANGED <<threads, session_stats>>
       ELSE IF spell_name = "EXPECTO_LONG"
       THEN IF ~check_position_limit(ConcSymbol, "LONG", amount, held, max_leverage).allowed
            THEN Return(t, Failure("RiskLimitExceeded"))
            ELSE /\ threads' = [threads EXCEPT ![t] =
                       [IdleThread EXCEPT !.pc = "open_check", !.amount = amount,
                                          !.price = held]]
                 /\ UNCHANGED session_stats
       ELSE /\ threads' = [threads EXCEPT ![t] =
                  [IdleThread EXCEPT !.pc = "close_select", !.price = held]]
            /\ UNCHANGED session_stats

\* open_long_position, the affordability test (portfolio.py 57-63)
ThreadOpenCheck(t) ==
    /\ At(t, "open_check")
    /\ UNCHANGED <<running, cash, positions, stats, next_id, max_leverage, daily_pnl,
                   max_daily_loss, op, result,
                   calls, dispatched>>
    /\ IF Insufficient(Value(threads[t].amount, threads[t].price), cash)
       THEN Return(t, Failure("InsufficientFunds"))
       ELSE /\ threads' = [threads EXCEPT ![t].pc = "open_mutate"]
            /\ UNCHANGED session_stats

\* open_long_position from the creation of the position to the return, and
\* the rest of the spell (portfolio.py 65-102, trading_engine.py 137-153);
\* the Store does not raise
ThreadOpenMutate(t) ==
    /\ At(t, "open_mutate")
    /\ positions' = [positions EXCEPT ![ConcSymbol] =
           Append(@, NewPosition(next_id, "LONG", threads[t].amount, threads[t].price))]
    /\ cash' = Debit(cash, Value(threads[t].amount, threads[t].price))
    /\ next_id' = next_id + 1
    /\ Return(t, Res(TRUE, "OK", "", next_id, <<>>))
    /\ UNCHANGED <<running, stats, max_leverage, daily_pnl,
                   max_daily_loss, op, result, calls, dispatched>>

\* close_positions up to its loop: the selection of the positions to close
\* (portfolio.py 171-191)
ThreadCloseSelect(t) ==
    /\ At(t, "close_select")
    /\ UNCHANGED <<running, cash, positions, stats, next_id, max_leverage, daily_pnl,
                   max_daily_loss, op, result,
                   calls, dispatched>>
    /\ IF PositionsToClose(positions[ConcSymbol], "ALL") = <<>>
       THEN Return(t, Failure("NoMatchingPositions"))
       ELSE /\ threads' = [threads EXCEPT ![t].pc = "close_loop",
                                          ![t].todo = PositionsToClose(positions[ConcSymbol], "ALL"),
                                          ![t].k = 1]
            /\ UNCHANGED session_stats

\* one iteration of the loop of close_positions (portfolio.py 194-237): the
\* loop goes through the positions selected, whatever their status is by now
ThreadCloseOne(t) ==
    /\ At(t, "close_loop")
    /\ \E i \in {threads[t].todo[threads[t].k]} :
       \E pnl \in {Pnl(positions[ConcSymbol][i], threads[t].price)} :
          /\ cash' = cash + CashReturn(positions[ConcSymbol][i], threads[t].price)
          /\ positions' = [positions EXCEPT ![ConcSymbol][i] =
                 MarkClosed(@, threads[t].price, pnl)]
          /\ stats' = CountTrade(stats, pnl)
          /\ threads' = [threads EXCEPT
                 ![t].total_pnl = @ + pnl,
                 ![t].k = @ + 1,
                 ![t].pc = IF threads[t].k = Len(threads[t].todo)
                           THEN "close_finish" ELSE "close_loop"]
    /\ UNCHANGED <<running, next_id, session_stats, max_leverage, daily_pnl,
                   max_daily_loss, op, result, calls,
                   dispatched>>

\* the end of close_positions and of the spell (portfolio.py 239-250,
\* trading_engine.py 222-238)
ThreadCloseFinish(t) ==
    /\ At(t, "close_finish")
    /\ stats' = [stats EXCEPT !.total_pnl = @ + threads[t].total_pnl,
                              !.total_pnl_percent =
                                  PnlPercent(stats.total_pnl + threads[t].total_pnl)]
    /\ Return(t, Res(TRUE, "OK", "", 0, <<>>))
    /\ UNCHANGED <<running, cash, positions, next_id, max_leverage, daily_pnl,
                   max_daily_loss, op, result, calls,
                   dispatched>>

ConcNext ==
    \/ Start
    \/ Stop
    \/ \E t \in Threads, spell_name \in {"EXPECTO_LONG", "FINITE_INCANTATEM"},
          held \in Prices :
          ThreadCastSpell(t, spell_name, 20, held)
    \/ \E t \in Threads : ThreadOpenCheck(t)
    \/ \E t \in Threads : ThreadOpenMutate(t)
    \/ \E t \in Threads : ThreadCloseSelect(t)
    \/ \E t \in Threads : ThreadCloseOne(t)
    \/ \E t \in Threads : ThreadCloseFinish(t)

ConcSpec == Init /\ [][ConcNext]_vars

\* ------------------------------------------------------------------
\* Properties of the Ledger (checked under LedgerSpec)
\* ------------------------------------------------------------------

\* the position an open of `amount` at `price` creates, as the caller sees it
Opened(trade_id, type, amount, price) ==
    [trade_id |-> trade_id, type |-> type, amount |-> amount,
     entry_price |-> price, status |-> "OPEN",
     keys |-> {}, exit_price |-> 0, pnl |-> 0]

\* C1: open_long_position with quantity*price <= cash (the boundary
\* included) succeeds, debits cash by exactly quantity*price, appends one new
\* OPEN LONG position for the symbol, leaves every other position unchanged
\* and returns the identifier of the new position.
C1_OpenLongWithinCash ==
    [][\A symbol \in LedgerSymbols, amount \in Amounts, price \in Prices, dbOk \in BOOLEAN :
          (OpenLong(symbol, amount, price, dbOk) /\ amount * price * 10 <= cash)
          => /\ result'.success
             /\ result'.trade_id > 0
             /\ cash' = cash - amount * price * 10
             /\ positions' = [positions EXCEPT ![symbol] =
                    Append(@, Opened(result'.trade_id, "LONG", amount, price))]
      ]_vars

\* C2: open_short_position with quantity*price*0.10 <= cash (the boundary
\* included) succeeds, debits cash by exactly that margin, appends one new
\* OPEN SHORT position for the symbol and returns its identifier.
C2_OpenShortWithinMargin ==
    [][\A symbol \in LedgerSymbols, amount \in Amounts, price \in Prices, dbOk \in BOOLEAN :
          (OpenShort(symbol, amount, price, dbOk) /\ amount * price <= cash)
          => /\ result'.success
             /\ result'.trade_id > 0
             /\ cash' = cash - amount * price
             /\ positions' = [positions EXCEPT ![symbol] =
                    Append(@, Opened(result'.trade_id, "SHORT", amount, price))]
      ]_vars

\* C3: an open that fails the affordability test (quantity*price > cash for
\* a long, quantity*price*0.10 > cash for a short) returns the failure
\* InsufficientFunds, respectively InsufficientMargin, and leaves cash, the
\* positions and the stats exactly as they were.
C3_UnaffordableOpenChangesNothing ==
    [][\A symbol \in LedgerSymbols, amount \in Amounts, price \in Prices, dbOk \in BOOLEAN :
          /\ (/\ op'.name = "open_long"
              /\ amount * price * 10 > cash
              /\ OpenLong(symbol, amount, price, dbOk))
             => /\ ~result'.success
                /\ result'.kind = "InsufficientFunds"
                /\ UNCHANGED <<cash, positions, stats>>
          /\ (/\ op'.name = "open_short"
              /\ amount * price > cash
              /\ OpenShort(symbol, amount, price, dbOk))
             => /\ ~result'.success
                /\ result'.kind = "InsufficientMargin"
                /\ UNCHANGED <<cash, positions, stats>>
      ]_vars

\* an open has just been refused for lack of cash while a position is held
C3_Witness ==
    /\ op.name \in {"open_long", "open_short"}
    /\ result.kind \in {"InsufficientFunds", "InsufficientMargin"}
    /\ cash < initial_cash
    /\ \E s \in LedgerSymbols : \E i \in DOMAIN positions[s] :
          positions[s][i].status = "OPEN"

\* position i of the symbol was OPEN before the step and is CLOSED after it
ClosedByStep(symbol, i) ==
    /\ positions[symbol][i].status = "OPEN"
    /\ positions'[symbol][i].status = "CLOSED"

\* the cash the closes of a step are to return: quantity*price for
\* a LONG, the original margin for a SHORT, summed over positions 1..n of
\* `before` that are CLOSED in `after`
RECURSIVE StatedReturn(_, _, _, _)
StatedReturn(before, after, price, n) ==
    IF n = 0 THEN 0
    ELSE StatedReturn(before, after, price, n - 1)
         + (IF before[n].status = "OPEN" /\ after[n].status = "CLOSED"
            THEN IF before[n].type = "LONG"
                 THEN before[n].amount * price * 10
                 ELSE before[n].amount * before[n].entry_price
            ELSE 0)

\* C4: every OPEN LONG position close_positions closes at price p gets the
\* realized P&L (p - entry_price)*quantity, adds quantity*p to cash and
\* becomes CLOSED; and a close_positions call that immediately repeats the
\* previous one (same symbol, same filter) fails with NoMatchingPositions and
\* changes neither cash, the positions nor the stats.
C4_LongCloseAndRepeat ==
    [][\A symbol \in LedgerSymbols, position_type \in {"ALL", "LONG", "SHORT"},
          price \in Prices, failAt \in FaultPoints :
          (/\ op'.name = "close_positions"
           /\ op'.symbol = symbol
           /\ op'.position_type = position_type
           /\ ClosePositions(symbol, position_type, price, failAt))
          => /\ \A i \in DOMAIN positions[symbol] :
                   (ClosedByStep(symbol, i) /\ positions[symbol][i].type = "LONG")
                   => positions'[symbol][i].pnl =
                        (price - positions[symbol][i].entry_price)
                        * positions[symbol][i].amount * 10
             /\ cash' - cash = StatedReturn(positions[symbol], positions'[symbol],
                                            price, Len(positions[symbol]))
             /\ (op.name = "close_positions" /\ op.symbol = symbol
                 /\ op.position_type = position_type)
                => /\ ~result'.success
                   /\ result'.kind = "NoMatchingPositions"
                   /\ UNCHANGED <<cash, positions, stats>>
      ]_vars

\* the call of `cs` at which the Store raised (0: none); a raise ends the loop
RaisedAt(cs) == IF cs # <<>> /\ ~cs[Len(cs)].ok THEN Len(cs) ELSE 0

\* C5: every OPEN SHORT position close_positions closes at price p gets the
\* realized P&L (entry_price - p)*quantity, and the cash the call adds is the
\* original margin quantity*entry_price*0.10 of each SHORT it closed (and
\* quantity*p of each LONG), whatever p is.
C5_ShortCloseReturnsMargin ==
    [][/\ (op'.name = "close_positions" /\ positions' = positions) => cash' = cash
       /\ \A price \in Prices :
             (/\ op'.name = "close_positions"
              /\ positions' # positions
              /\ ClosePositions(op'.symbol, op'.position_type, price, RaisedAt(calls')))
             => /\ \A i \in DOMAIN positions[op'.symbol] :
                      (ClosedByStep(op'.symbol, i) /\ positions[op'.symbol][i].type = "SHORT")
                      => /\ positions'[op'.symbol][i].pnl =
                              (positions[op'.symbol][i].entry_price - price)
                              * positions[op'.symbol][i].amount * 10
                         /\ positions'[op'.symbol][i].exit_price = price
                /\ cash' - cash = StatedReturn(positions[op'.symbol], positions'[op'.symbol],
                                               price, Len(positions[op'.symbol]))
      ]_vars

\* the last call closed a SHORT at a price other than its entry price
C5_Witness ==
    /\ op.name = "close_positions"
    /\ result.success
    /\ \E i \in DOMAIN positions[op.symbol] :
          /\ positions[op.symbol][i].type = "SHORT"
          /\ positions[op.symbol][i].status = "CLOSED"
          /\ positions[op.symbol][i].exit_price # positions[op.symbol][i].entry_price
          /\ \E k \in DOMAIN result.closed_trades :
                result.closed_trades[k] = positions[op.symbol][i].trade_id

\* ------------------------------------------------------------------
\* Properties of the Dispatcher (checked under Spec)
\* ------------------------------------------------------------------

\* the step is one call of cast_spell
Dispatch == dispatched' = dispatched + 1

\* the spells that open a position, and the trading spells
OpenSpells == {"EXPECTO_LONG", "EXPECTO_SHORT", "ALOHOMORA"}
TradingSpells == OpenSpells \cup {"FINITE_INCANTATEM", "COLLOPORTUS"}

\* C6: an open-long or open-short command dispatched while the engine is
\* running with a quantity above the symbol's maximum quantity (the default
\* maximum for a symbol without limits of its own) fails and leaves cash, the
\* positions and the stats unchanged; no Ledger operation is called; and
\* whenever the Price Feed returned a price, whatever it is, the Risk Gate
\* is the one that denies, for the quantity.
C6_OversizeOpenDenied ==
    [][(/\ Dispatch
        /\ running
        /\ op'.spell \in OpenSpells
        /\ op'.amount > SymbolLimits(op'.symbol).max_amount)
       => /\ ~result'.success
          /\ UNCHANGED <<cash, positions, stats>>
          /\ \A k \in DOMAIN calls' :
                calls'[k].fn \in {"get_price", "check_position_limit"}
          /\ (calls' # <<>> /\ calls'[1] = Call("get_price", 0, TRUE))
             => /\ result'.kind = "RiskLimitExceeded"
                /\ result'.reason = "amount"
      ]_vars

\* the Risk Gate has just denied an open for its quantity while a position
\* is held
C6_Witness ==
    /\ op.name = "cast_spell"
    /\ op.spell \in OpenSpells
    /\ op.amount > SymbolLimits(op.symbol).max_amount
    /\ result.kind = "RiskLimitExceeded"
    /\ result.reason = "amount"
    /\ cash < initial_cash

\* C7: while the engine is not running, every trading command is rejected
\* with EngineInactive, and during that dispatch neither the Price Feed, the
\* Risk Gate, the Ledger nor the Store is called, so cash, the positions and
\* the stats are unchanged.
C7_InactiveRejectsTrading ==
    [][(Dispatch /\ ~running /\ op'.spell \in TradingSpells)
       => /\ ~result'.success
          /\ result'.kind = "EngineInactive"
          /\ calls' = <<>>
          /\ UNCHANGED <<cash, positions, stats, next_id>>
      ]_vars

\* a close-all has just been rejected by the stopped engine although the
\* symbol has an OPEN position
C7_Witness ==
    /\ op.name = "cast_spell"
    /\ op.spell = "FINITE_INCANTATEM"
    /\ ~running
    /\ result.kind = "EngineInactive"
    /\ \E i \in DOMAIN positions[op.symbol] :
          positions[op.symbol][i].status = "OPEN"

\* C8: LUMOS dispatched while the engine is not running succeeds and leaves
\* the engine running; and a trading command dispatched right after a LUMOS
\* dispatch is not rejected with EngineInactive.
C8_LumosActivates ==
    [][/\ (Dispatch /\ ~running /\ op'.spell = "LUMOS")
          => (result'.success /\ running')
       /\ (Dispatch /\ op.name = "cast_spell" /\ op.spell = "LUMOS"
           /\ op'.spell \in TradingSpells)
          => result'.kind # "EngineInactive"
      ]_vars

\* C9: dispatched while the engine is running, NOX succeeds and leaves the
\* engine stopped, and LUMOS succeeds and leaves it running, for every
\* symbol, the empty and the unsupported ones included.
C9_TogglesIgnoreSymbol ==
    [][/\ (Dispatch /\ running /\ op'.spell = "NOX")
          => (result'.success /\ ~running')
       /\ (Dispatch /\ running /\ op'.spell = "LUMOS")
          => (result'.success /\ running')
      ]_vars

\* C10: with the engine running, the default risk limits and cash 10000.00,
\* EXPECTO_SHORT of 1.0 bitcoin at 50000.00 succeeds and leaves cash 5000.00;
\* FINITE_INCANTATEM on bitcoin at 45000.00 that follows closes the short
\* with a realized P&L of 5000.00 and leaves cash 10000.00.
C10_ShortRoundTrip ==
    [][/\ (/\ running
           /\ max_leverage = DefaultMaxLeverage
           /\ cash = Dollars(10000)
           /\ CastSpell("EXPECTO_SHORT", "bitcoin", 100, "", 50000, 0, 0))
          => /\ result'.success
             /\ cash' = Dollars(5000)
       /\ (/\ running
           /\ max_leverage = DefaultMaxLeverage
           /\ cash = Dollars(5000)
           /\ op.spell = "EXPECTO_SHORT"
           /\ Len(positions["bitcoin"]) = 1
           /\ positions["bitcoin"][1] =
                 Opened(positions["bitcoin"][1].trade_id, "SHORT", 100, 50000)
           /\ CastSpell("FINITE_INCANTATEM", "bitcoin", 0, "", 45000, 0, 0))
          => /\ result'.success
             /\ positions'["bitcoin"][1].pnl = Dollars(5000)
             /\ cash' = Dollars(10000)
      ]_vars

\* ------------------------------------------------------------------
\* Further properties of the Ledger (checked under LedgerSpec)
\* ------------------------------------------------------------------

\* C11: after any sequence of open_long_position, open_short_position and
\* close_positions calls, successful or failed, reset_portfolio leaves cash
\* equal to the initial cash, no position at all (neither OPEN nor CLOSED)
\* and every aggregate stat equal to zero.
C11_ResetRestoresInitialLedger ==
    [][op'.name = "reset"
       => /\ cash' = initial_cash
          /\ \A s \in Symbols : positions'[s] = <<>>
          /\ stats'.total_pnl = 0
          /\ stats'.total_pnl_percent = 0
          /\ stats'.winning_trades = 0
          /\ stats'.losing_trades = 0
          /\ stats'.total_trades = 0
      ]_vars

\* reset_portfolio has just returned after two positions had been created
C11_Witness ==
    /\ op.name = "reset"
    /\ next_id > 2
    /\ cash = initial_cash

\* C15: in every state reached by open_long_position, open_short_position,
\* close_positions and reset_portfolio calls, with positive amounts and
\* prices, from the initial Ledger, cash is not negative.
C15_CashNeverNegative == cash >= 0

\* an open has just taken all the cash there was
C15_Witness ==
    /\ op.name \in {"open_long", "open_short"}
    /\ cash = 0
    /\ \E s \in LedgerSymbols : \E i \in DOMAIN positions[s] :
          positions[s][i].status = "OPEN"

\* the number of CLOSED positions among the first n of ps, and the sum of
\* their realized P&L
RECURSIVE ClosedIn(_, _)
ClosedIn(ps, n) ==
    IF n = 0 THEN 0
    ELSE ClosedIn(ps, n - 1) + (IF ps[n].status = "CLOSED" THEN 1 ELSE 0)

RECURSIVE PnlIn(_, _)
PnlIn(ps, n) ==
    IF n = 0 THEN 0
    ELSE PnlIn(ps, n - 1) + (IF ps[n].status = "CLOSED" THEN ps[n].pnl ELSE 0)

\* over the whole Ledger
ClosedCount ==
    ClosedIn(positions["bitcoin"], Len(positions["bitcoin"]))
    + ClosedIn(positions["btc"], Len(positions["btc"]))
    + ClosedIn(positions[""], Len(positions[""]))

ClosedPnl ==
    PnlIn(positions["bitcoin"], Len(positions["bitcoin"]))
    + PnlIn(positions["btc"], Len(positions["btc"]))
    + PnlIn(positions[""], Len(positions[""]))

\* C16: after every Ledger operation has returned, also a close_positions
\* during which the Store raised on one of the matching positions, the stats
\* agree with the CLOSED positions held since the last reset: total_trades is
\* their number and total_pnl the sum of their realized P&L.
C16_StatsAgreeWithClosedPositions ==
    /\ stats.total_trades = ClosedCount
    /\ stats.total_pnl = ClosedPnl

\* a position is OPEN with none of exit price, exit time and realized P&L, or
\* CLOSED with all three
WellFormedPosition(p) ==
    \/ p.status = "OPEN" /\ p.keys = {}
    \/ p.status = "CLOSED" /\ p.keys = {"exit_price", "exit_time", "pnl"}

\* C17: every position is OPEN with no exit price, exit time or realized
\* P&L, or CLOSED with all three set; unless the Ledger is reset, a position
\* stays in its list with the same identifier, type, amount and entry price,
\* and once CLOSED it does not change any more (in particular it is never
\* OPEN again).  Stated of the steps that change the positions, the first
\* state holding none.
C17_PositionLifecycle ==
    [][positions' # positions
       =>
       /\ \A s \in Symbols : \A i \in DOMAIN positions'[s] :
             WellFormedPosition(positions'[s][i])
       /\ op'.name # "reset"
          => \A s \in Symbols : \A i \in DOMAIN positions[s] :
                /\ i \in DOMAIN positions'[s]
                /\ positions'[s][i].trade_id = positions[s][i].trade_id
                /\ positions'[s][i].type = positions[s][i].type
                /\ positions'[s][i].amount = positions[s][i].amount
                /\ positions'[s][i].entry_price = positions[s][i].entry_price
                /\ positions[s][i].status = "CLOSED"
                   => positions'[s][i] = positions[s][i]
      ]_vars

\* a close_positions call has just returned while the symbol holds both a
\* position closed earlier or now and one still OPEN
C17_Witness ==
    /\ op.name = "close_positions"
    /\ \E i, j \in DOMAIN positions[op.symbol] :
          /\ positions[op.symbol][i].status = "CLOSED"
          /\ positions[op.symbol][j].status = "OPEN"

\* ------------------------------------------------------------------
\* Further properties of the Dispatcher (checked under Spec)
\* ------------------------------------------------------------------

\* C12: every call of cast_spell, whatever its outcome, adds exactly one to
\* the session's total count and exactly one to either the successful or the
\* failed count.
C12_EveryDispatchCounted ==
    [][Dispatch
       => /\ session_stats'.total_trades = session_stats.total_trades + 1
          /\ \/ /\ session_stats'.successful_trades = session_stats.successful_trades + 1
                /\ session_stats'.failed_trades = session_stats.failed_trades
             \/ /\ session_stats'.successful_trades = session_stats.successful_trades
                /\ session_stats'.failed_trades = session_stats.failed_trades + 1
      ]_vars

\* the outcomes cast_spell reports in its result
ResultKinds ==
    {"OK", "EngineInactive", "UnknownCommand", "PriceUnavailable", "RiskLimitExceeded",
     "InsufficientFunds", "InsufficientMargin", "NoMatchingPositions", "InternalError",
     "Backfired"}

\* C13: no call of cast_spell raises to its caller: whatever the spell, the
\* symbol and the amount, and whether the Price Feed has no price or raises
\* and the Store raises in save_position, close_position or log_trade, the
\* call returns a result with a boolean success flag and a reported outcome.
C13_DispatchNeverRaises ==
    op.name = "cast_spell"
    => /\ result.success \in BOOLEAN
       /\ result.kind \in ResultKinds
       /\ result.success <=> result.kind = "OK"

\* cast_spell has just returned a failure after the Store raised
C13_Witness ==
    /\ op.name = "cast_spell"
    /\ ~result.success
    /\ \E k \in DOMAIN calls :
          /\ calls[k].fn \in {"save_position", "close_position", "log_trade"}
          /\ ~calls[k].ok

\* the spells that close positions
CloseSpells == {"FINITE_INCANTATEM", "COLLOPORTUS"}

\* the k-th collaborator call of the step is a Store call that raised
StoreRaisedAt(k) ==
    /\ calls'[k].fn \in {"save_position", "close_position", "log_trade"}
    /\ ~calls'[k].ok

\* the cash an open of position p takes: quantity*price for a LONG, the
\* margin for a SHORT
Cost(p) == IF p.type = "LONG" THEN p.amount * p.entry_price * 10
           ELSE p.amount * p.entry_price

\* C14: a failure of the Store never undoes a Ledger mutation.  When
\* save_position or log_trade raises during an open, the new position is in
\* the Ledger, OPEN, and cash is debited by its cost once the spell returns;
\* when close_position or log_trade raises during a close, the position is
\* CLOSED and cash holds the credit of every position the spell closed.
C14_StoreFailureKeepsMutation ==
    [][\A k \in DOMAIN calls' :
          (Dispatch /\ StoreRaisedAt(k))
          => /\ op'.spell \in OpenSpells
                => \E i \in DOMAIN positions'[op'.symbol] :
                      /\ positions'[op'.symbol][i].trade_id = calls'[k].id
                      /\ positions'[op'.symbol][i].status = "OPEN"
                      /\ i = Len(positions[op'.symbol]) + 1
                      /\ cash' = cash - Cost(positions'[op'.symbol][i])
             /\ op'.spell \in CloseSpells
                => \E i \in DOMAIN positions[op'.symbol] :
                      /\ positions'[op'.symbol][i].trade_id = calls'[k].id
                      /\ ClosedByStep(op'.symbol, i)
                      /\ cash' - cash =
                            StatedReturn(positions[op'.symbol], positions'[op'.symbol],
                                         positions'[op'.symbol][i].exit_price,
                                         Len(positions[op'.symbol]))
      ]_vars

\* FINITE_INCANTATEM has just failed because close_position raised, and the
\* position it raised on is CLOSED
C14_Witness ==
    /\ op.name = "cast_spell"
    /\ op.spell = "FINITE_INCANTATEM"
    /\ ~result.success
    /\ \E k \in DOMAIN calls :
          /\ calls[k].fn = "close_position"
          /\ ~calls[k].ok
          /\ \E i \in DOMAIN positions[op.symbol] :
                /\ positions[op.symbol][i].trade_id = calls[k].id
                /\ positions[op.symbol][i].status = "CLOSED"

----------------------------------------------------------------------------
(* Properties of concurrent use (checked under ConcSpec) *)

\* C18: when two threads open positions at the same time, the test
\* `required <= cash` and the debit are atomic: a thread that passed the test
\* and has not debited yet can still afford its position, and cash is never
\* negative, so two opens that are affordable one by one but not together
\* never both succeed.
C18_ConcurrentOpensWithinCash ==
    /\ \A t \in Threads :
          At(t, "open_mutate")
          => ~Insufficient(Value(threads[t].amount, threads[t].price), cash)
    /\ cash >= 0

\* what the positions ps[1..n] have moved into cash: the return of the
\* CLOSED ones less the cost of all of them
RECURSIVE CashMoved(_, _)
CashMoved(ps, n) ==
    IF n = 0 THEN 0
    ELSE CashMoved(ps, n - 1) - Cost(ps[n])
         + (IF ps[n].status = "CLOSED" THEN CashReturn(ps[n], ps[n].exit_price) ELSE 0)

\* C19: when two threads close all positions at the same time, every OPEN
\* position is closed exactly once: the trade counter counts each CLOSED
\* position once, and cash holds the return of each CLOSED position once.
C19_ConcurrentCloseOnce ==
    /\ stats.total_trades = ClosedCount
    /\ cash = initial_cash
              + CashMoved(positions[ConcSymbol], Len(positions[ConcSymbol]))

\* C20: once stop has returned and until the engine is activated again, no
\* trading command of any thread changes the Ledger: a step of a thread taken
\* while the engine is not running leaves cash, positions and stats alone.
C20_NoMutationWhileStopped ==
    [][(~running /\ threads' # threads) => UNCHANGED <<cash, positions, stats>>]_vars

----------------------------------------------------------------------------
(* Order of the steps of a dispatch, and what reaches the Ledger and the
   trade log (checked under Spec) *)

\* the side an EXPECTO spell opens
SideOf(spell_name) == IF spell_name = "EXPECTO_LONG" THEN "LONG" ELSE "SHORT"

\* the Ledger's open operations, as they appear among the calls
LedgerOpens == {"open_long_position", "open_short_position"}

\* C21: an open-long or open-short command dispatched while the engine is
\* running looks the price up first, then asks the Risk Gate, then calls the
\* Ledger: the Ledger's open is called only after the feed returned a price
\* and the gate allowed; when the price is unavailable the command fails with
\* PriceUnavailable and neither the gate nor the Ledger is called; when the
\* gate denies, the failure carries the gate's reason and the Ledger is not
\* called.
C21_PriceThenGateThenLedger ==
    [][(/\ Dispatch
        /\ running
        /\ op'.spell \in {"EXPECTO_LONG", "EXPECTO_SHORT"})
       => /\ calls'[1].fn = "get_price"
          /\ ~calls'[1].ok
             => /\ result'.kind = "PriceUnavailable"
                /\ Len(calls') = 1
                /\ UNCHANGED <<cash, positions, stats>>
          /\ calls'[1].ok
             => /\ calls'[2].fn = "check_position_limit"
                /\ \E price \in FeedPrices(op'.symbol) :
                   \E gate \in {check_position_limit(op'.symbol, SideOf(op'.spell),
                                                      op'.amount, price, max_leverage)} :
                      IF gate.allowed
                      THEN /\ Len(calls') >= 3
                           /\ calls'[3].fn \in LedgerOpens
                      ELSE /\ Len(calls') = 2
                           /\ ~result'.success
                           /\ result'.kind = "RiskLimitExceeded"
                           /\ result'.reason = gate.reason
                           /\ UNCHANGED <<cash, positions, stats>>
          /\ \A k \in DOMAIN calls' : calls'[k].fn \in LedgerOpens => k = 3
      ]_vars

\* the Risk Gate has just denied an open-short for its leverage, after the
\* feed returned a price
C21_Witness ==
    /\ op.name = "cast_spell"
    /\ op.spell = "EXPECTO_SHORT"
    /\ calls = <<Call("get_price", 0, TRUE), Call("check_position_limit", 0, TRUE)>>
    /\ result.kind = "RiskLimitExceeded"
    /\ result.reason = "leverage"

\* the spells that open a SHORT: EXPECTO_SHORT, and ALOHOMORA told so
ShortDispatch ==
    /\ op.name = "cast_spell"
    /\ \/ op.spell = "EXPECTO_SHORT"
       \/ (op.spell = "ALOHOMORA" /\ op.position_type \notin {"", "LONG"})

\* C22: for a SHORT request that passes the quantity and the notional tests,
\* the leverage test of check_position_limit depends neither on the symbol,
\* the quantity nor the price: the request is denied exactly when 10 (one over
\* the margin rate) exceeds max_leverage; hence under the default
\* max_leverage of 3 every open-short command is denied and none reaches the
\* Ledger.
C22_ShortLeverageIsConstant ==
    (/\ ShortDispatch
     /\ Len(calls) >= 2
     /\ calls[2].fn = "check_position_limit"
     /\ result.reason \notin {"amount", "value"})
    => /\ result.kind = "RiskLimitExceeded" <=> 10 > max_leverage
       /\ max_leverage = DefaultMaxLeverage
          => \A k \in DOMAIN calls : calls[k].fn \notin LedgerOpens

\* how many entries the trade log received during the call for trade id `id`:
\* the log_trade calls on it that returned
RECURSIVE Logged(_, _, _)
Logged(cs, id, n) ==
    IF n = 0 THEN 0
    ELSE Logged(cs, id, n - 1)
         + (IF cs[n].fn = "log_trade" /\ cs[n].id = id /\ cs[n].ok THEN 1 ELSE 0)

\* the trade ids the Ledger has handed out so far
TradeIds == 1..MaxTrades + 1

\* the position with trade id `id` was opened, respectively closed, by the step
OpenedByStep(id) ==
    \E s \in Symbols :
       /\ Len(positions'[s]) = Len(positions[s]) + 1
       /\ positions'[s][Len(positions'[s])].trade_id = id

ClosedIdByStep(id) ==
    \E s \in Symbols : \E i \in DOMAIN positions[s] :
       ClosedByStep(s, i) /\ positions[s][i].trade_id = id

\* C25: a trade-log entry is written exactly when a Ledger operation
\* succeeded: a successful open command writes exactly one entry, with the
\* identifier of the new position; every position a close-all closes gets
\* exactly one entry with its identifier; and a command that fails writes no
\* entry at all.
C25_TradeLogMatchesLedger ==
    [][Dispatch
       => \A id \in TradeIds :
             /\ (result'.success /\ op'.spell \in OpenSpells /\ OpenedByStep(id))
                => Logged(calls', id, Len(calls')) = 1
             /\ ClosedIdByStep(id) => Logged(calls', id, Len(calls')) = 1
             /\ ~result'.success => Logged(calls', id, Len(calls')) = 0
             /\ ~(OpenedByStep(id) \/ ClosedIdByStep(id))
                => Logged(calls', id, Len(calls')) = 0
      ]_vars

\* C27: whatever quantity a caller passes to cast_spell, zero and negative
\* ones included, every position in the Ledger has a quantity above zero and
\* an entry price above zero, and no open command increases cash.
C27_PositionsArePositive ==
    [][Dispatch
       => /\ \A s \in Symbols : \A i \in DOMAIN positions'[s] :
                /\ positions'[s][i].amount > 0
                /\ positions'[s][i].entry_price > 0
          /\ op'.spell \in OpenSpells => cash' <= cash
      ]_vars

----------------------------------------------------------------------------
(* Accounting of the Ledger (checked under LedgerSpec) *)

\* among the first n positions of `before`, how many the step closed, and how
\* many of those with a realized P&L above zero
RECURSIVE ClosedNow(_, _, _)
ClosedNow(before, after, n) ==
    IF n = 0 THEN 0
    ELSE ClosedNow(before, after, n - 1)
         + (IF before[n].status = "OPEN" /\ after[n].status = "CLOSED" THEN 1 ELSE 0)

RECURSIVE WonNow(_, _, _)
WonNow(before, after, n) ==
    IF n = 0 THEN 0
    ELSE WonNow(before, after, n - 1)
         + (IF before[n].status = "OPEN" /\ after[n].status = "CLOSED" /\ after[n].pnl > 0
            THEN 1 ELSE 0)

\* C26: each position closed adds one to the total trade count and one to
\* exactly one of the win count (realized P&L above zero) and the loss count
\* (realized P&L zero or below); hence the win count and the loss count add up
\* to the total trade count in every state.
C26_EachCloseCountedOnce ==
    [][/\ stats'.winning_trades + stats'.losing_trades = stats'.total_trades
       /\ op'.name = "close_positions"
          => \E closed \in {ClosedNow(positions[op'.symbol], positions'[op'.symbol],
                                       Len(positions[op'.symbol]))} :
             \E won \in {WonNow(positions[op'.symbol], positions'[op'.symbol],
                                 Len(positions[op'.symbol]))} :
                /\ stats'.total_trades = stats.total_trades + closed
                /\ stats'.winning_trades = stats.winning_trades + won
                /\ stats'.losing_trades = stats.losing_trades + (closed - won)
      ]_vars

\* over the first n positions of ps: what the OPEN ones hold of the cash (the
\* notional of a LONG, the margin of a SHORT) less the realized P&L of the
\* CLOSED LONG ones
RECURSIVE HeldLessRealized(_, _)
HeldLessRealized(ps, n) ==
    IF n = 0 THEN 0
    ELSE HeldLessRealized(ps, n - 1)
         + (IF ps[n].status = "OPEN"
            THEN IF ps[n].type = "LONG"
                 THEN ps[n].amount * ps[n].entry_price * 10
                 ELSE ps[n].amount * ps[n].entry_price
            ELSE IF ps[n].type = "LONG" THEN 0 - ps[n].pnl ELSE 0)

\* C28: in every state reached by open_long_position, open_short_position
\* and close_positions calls from the initial Ledger, cash plus
\* quantity*entry_price of the OPEN LONG positions plus
\* quantity*entry_price*0.10 of the OPEN SHORT positions equals the initial
\* cash plus the realized P&L of the CLOSED LONG positions; the realized P&L
\* of a SHORT never enters cash.  (The equation holds without Store failures,
\* and with them as well.)
C28_CashConservation ==
    cash + HeldLessRealized(positions["bitcoin"], Len(positions["bitcoin"]))
         + HeldLessRealized(positions["btc"], Len(positions["btc"]))
         + HeldLessRealized(positions[""], Len(positions[""]))
    = initial_cash

\* a LONG and a SHORT have both been closed with a realized P&L other than
\* zero, and no Store call of the last operation raised
C28_Witness ==
    /\ op.name = "close_positions"
    /\ result.success
    /\ \E s \in LedgerSymbols : \E i, j \in DOMAIN positions[s] :
          /\ positions[s][i].type = "LONG"
          /\ positions[s][i].status = "CLOSED"
          /\ positions[s][i].pnl # 0
          /\ positions[s][j].type = "SHORT"
          /\ positions[s][j].status = "CLOSED"
          /\ positions[s][j].pnl # 0

\* C29: whenever open_long_position, open_short_position or close_positions
\* returns success = false, for whatever reason, a failure of the Store inside
\* the operation included, cash, the positions with their statuses and the
\* stats are what they were before the call.
C29_FailureHasNoEffect ==
    [][(/\ op'.name \in {"open_long", "open_short", "close_positions"}
        /\ ~result'.success)
       => UNCHANGED <<cash, positions, stats>>
      ]_vars

----------------------------------------------------------------------------
(* The value of the account (checked under ValuationSpec) *)

\* the sum the valuation is stated to return for the first n positions of
\* symbol s under the mapping m: quantity*current_price of each OPEN LONG,
\* (entry_price - current_price)*quantity of each OPEN SHORT
RECURSIVE StatedValue(_, _, _, _)
StatedValue(ps, m, s, n) ==
    IF n = 0 THEN 0
    ELSE StatedValue(ps, m, s, n - 1)
         + (IF ps[n].status # "OPEN" THEN 0
            ELSE IF ps[n].type = "LONG"
                 THEN ps[n].amount * m[s] * 10
                 ELSE (ps[n].entry_price - m[s]) * ps[n].amount * 10)

\* the mapping m has a price for every symbol that holds an OPEN position
PricesEveryOpen(m) ==
    \A s \in Symbols :
       (\E i \in DOMAIN positions[s] : positions[s][i].status = "OPEN")
       => s \in DOMAIN m

\* C23: get_portfolio_value only reads.  For every Ledger and every mapping
\* with a price for each symbol that holds an OPEN position, it returns cash
\* plus, over the OPEN positions, quantity*current_price of a LONG and
\* (entry_price - current_price)*quantity of a SHORT; CLOSED positions add
\* nothing; cash, the positions and the stats are left as they are.
C23_ValuationIsPureRead ==
    [][\A m \in PriceMaps :
          (/\ op'.name = "get_portfolio_value"
           /\ PricesEveryOpen(m)
           /\ GetPortfolioValue(m))
          => /\ result'.total_value =
                   cash + StatedValue(positions["bitcoin"], m, "bitcoin", Len(positions["bitcoin"]))
                        + StatedValue(positions["btc"], m, "btc", Len(positions["btc"]))
                        + StatedValue(positions[""], m, "", Len(positions[""]))
             /\ UNCHANGED <<cash, positions, stats, next_id>>
      ]_vars

\* the value has just been computed of a Ledger that holds a CLOSED position
\* with a realized P&L and an OPEN SHORT, at a price other than its entry price
C23_Witness ==
    /\ op.name = "get_portfolio_value"
    /\ result.total_value # cash
    /\ \E s, u \in LedgerSymbols : \E i \in DOMAIN positions[s], j \in DOMAIN positions[u] :
          /\ positions[s][i].status = "CLOSED"
          /\ positions[s][i].pnl # 0
          /\ positions[u][j].status = "OPEN"
          /\ positions[u][j].type = "SHORT"

----------------------------------------------------------------------------
(* The daily loss limit (checked under RiskSpec) *)

\* C24: check_daily_loss_limit decides from the running daily P&L d, the
\* incoming P&L x and the configured fraction f = max_daily_loss alone: it
\* denies exactly when d + x is below -(d*f) and allows otherwise, and leaves
\* d as it is; with d = 0 it allows every x >= 0 and denies every x < 0.
C24_DailyLossDecision ==
    [][op'.name = "check_daily_loss_limit"
       => /\ ~result'.allowed
             <=> 100 * (daily_pnl + op'.amount) < 0 - (daily_pnl * max_daily_loss)
          /\ daily_pnl' = daily_pnl
          /\ max_daily_loss' = max_daily_loss
          /\ daily_pnl = 0 => (result'.allowed <=> op'.amount >= 0)
      ]_vars

\* a gain has just been denied: the running daily P&L is a loss the gain
\* does not make up for
C24_Witness ==
    /\ op.name = "check_daily_loss_limit"
    /\ op.amount > 0
    /\ daily_pnl < 0
    /\ ~result.allowed

----------------------------------------------------------------------------
(* Restarting over the Store (checked under RestartSpec) *)

\* the OPEN positions of a symbol's list, as a set
OpenSet(ps) == {ps[i] : i \in {j \in DOMAIN ps : ps[j].status = "OPEN"}}

\* C30: a Ledger constructed over the Store of the session before, which
\* holds the OPEN positions that session recorded, has the same OPEN
\* positions and the same cash as that session had; so a LONG that is opened,
\* kept over a restart and closed at its entry price leaves cash at the
\* initial cash.
C30_RestartPreservesAccount ==
    [][(op'.name = "restart" /\ calls'[1].ok)
       => /\ \A s \in Symbols : OpenSet(positions'[s]) = OpenSet(positions[s])
          /\ cash' = cash
      ]_vars

====
